---- MODULE Spec2Model ----
\* Model of RetroMusicPlayer (src/retro_music_player.py): the playlist, the
\* playlist display widget, the playback flags, the three GUI timers, the
\* pygame music channel and the playlist file, with one action per GUI handler.
\* Indices are 0-based as in the source, so playlist[i + 1] is Python's
\* playlist[i].  Cosmetic label texts and album art are left out.
EXTENDS Integers, Sequences, FiniteSets, TLC

\* ---------------------------------------------------------------- bounds
\* Longest playlist the handlers are allowed to build.
MaxLen == 2
\* Most files handed over by one file dialog or one drop.
MaxFiles == 1

\* ------------------------------------------------------------ file names
\* The files a user can pick or drop: an mp3, a non-mp3 audio file and a file
\* whose extension is not supported.
Paths == {"a.mp3", "b.wav", "c.txt"}

\* os.path.splitext(file)[1].lower()
splitext_lower(file) ==
    CASE file = "a.mp3" -> ".mp3"
      [] file = "b.wav" -> ".wav"
      [] OTHER          -> ".txt"

SUPPORTED_FORMATS ==
    {".mp3", ".wav", ".flac", ".ogg", ".aac", ".wma", ".m4a", ".aiff", ".opus"}

\* The mixer has no music loaded.
NoTrack == "<none>"

VARIABLES
    playlist,              \* self.playlist: sequence of paths
    playlist_widget,       \* rows of the QListWidget; a row is the path it was built from
    current_track_index,   \* self.current_track_index
    is_playing,            \* self.is_playing
    is_shuffled,           \* self.is_shuffled
    is_repeated,           \* self.is_repeated
    progress_timer,        \* QTimer.isActive() of the three timers
    equalizer_timer,
    visualizer_timer,
    music,                 \* pygame music channel: "stopped", "playing", "paused", "ended"
    loaded,                \* the file pygame.mixer.music has loaded, or NoTrack
    unreadable,            \* paths that no longer resolve to a readable audio file
    playlist_file,         \* tokens of the JSON playlist file, <<>> while there is none
    dialog,                \* title of the last message box of the last step, or "none"
    op                     \* the handler or event that ran last

vars == <<playlist, playlist_widget, current_track_index, is_playing, is_shuffled,
          is_repeated, progress_timer, equalizer_timer, visualizer_timer, music,
          loaded, unreadable, playlist_file, dialog, op>>

timers == <<progress_timer, equalizer_timer, visualizer_timer>>
flags == <<is_shuffled, is_repeated>>
mixer == <<music, loaded>>
lists == <<playlist, playlist_widget>>

\* __init__
Init ==
    /\ playlist = <<>>
    /\ playlist_widget = <<>>
    /\ current_track_index = 0
    /\ is_playing = FALSE
    /\ is_shuffled = FALSE
    /\ is_repeated = FALSE
    /\ progress_timer = FALSE
    /\ equalizer_timer = FALSE
    /\ visualizer_timer = FALSE
    /\ music = "stopped"
    /\ loaded = NoTrack
    /\ unreadable = {}
    /\ playlist_file = <<>>
    /\ dialog = "none"
    /\ op = "init"

\* ------------------------------------------------------- external libraries
\* mutagen's MP3(file) raises when the file is missing or is no mp3 stream.
MP3Raises(file) == file \in unreadable

\* pygame.mixer.music.load(track) raises when the file cannot be opened or decoded.
MixerLoadRaises(track) == track \in unreadable

\* pygame.mixer.music.get_pos() == -1: no music has started, or it has ended.
get_pos_is_minus_one == music \in {"stopped", "ended"}

\* pygame.mixer.music.fadeout(ms): a channel that is sounding or paused is halted.
fadeout(m) == IF m \in {"playing", "paused"} THEN "stopped" ELSE m

\* pygame.mixer.music.pause()
pause(m) == IF m = "playing" THEN "paused" ELSE m

\* pygame.mixer.music.unpause()
unpause(m) == IF m = "paused" THEN "playing" ELSE m

\* ------------------------------------------------------------------- JSON
JsonPunctuation == {"[", ",", "]"}

RECURSIVE JsonItems(_)
JsonItems(seq) ==
    IF Len(seq) = 0 THEN <<>>
    ELSE IF Len(seq) = 1 THEN <<seq[1]>>
    ELSE <<seq[1], ",">> \o JsonItems(Tail(seq))

\* json.dump(self.playlist, f): the array as a token sequence
json_dump(seq) == <<"[">> \o JsonItems(seq) \o <<"]">>

\* json.load(f): the strings of the array, in file order
json_load(tokens) == SelectSeq(tokens, LAMBDA t : t \notin JsonPunctuation)

\* ------------------------------------------------- add_tracks / dropEvent
\* One pass of the loop body shared by add_tracks and dropEvent over a state
\* st = [pl |-> playlist, wd |-> widget rows, dlg |-> last message box]:
\* the append to the playlist precedes the reads that can raise.
AddFile(st, file) ==
    IF splitext_lower(file) \in SUPPORTED_FORMATS
    THEN IF splitext_lower(file) = ".mp3" /\ MP3Raises(file)
         THEN [pl |-> Append(st.pl, file), wd |-> st.wd, dlg |-> "File Error"]
         ELSE [pl |-> Append(st.pl, file), wd |-> Append(st.wd, file), dlg |-> st.dlg]
    ELSE [pl |-> st.pl, wd |-> st.wd, dlg |-> "Unsupported Format"]

RECURSIVE AddFiles(_, _)
AddFiles(st, files) ==
    IF files = <<>> THEN st
    ELSE AddFiles(AddFile(st, Head(files)), Tail(files))

\* The lists of files one dialog or one drop can hand over.
FileLists == UNION {[1..k -> Paths] : k \in 1..MaxFiles}

\* How many of the files would be appended to the playlist.
Supported(files) == SelectSeq(files, LAMBDA f : splitext_lower(f) \in SUPPORTED_FORMATS)

add_tracks ==
    \E files \in FileLists :
        /\ Len(playlist) + Len(Supported(files)) <= MaxLen
        /\ LET st == AddFiles([pl |-> playlist, wd |-> playlist_widget, dlg |-> "none"], files)
           IN /\ playlist' = st.pl
              /\ playlist_widget' = st.wd
              /\ dialog' = st.dlg
        /\ op' = "add_tracks"
        /\ UNCHANGED <<current_track_index, is_playing, flags, timers, mixer,
                       unreadable, playlist_file>>

dropEvent ==
    \E urls \in FileLists :
        /\ Len(playlist) + Len(Supported(urls)) <= MaxLen
        /\ LET st == AddFiles([pl |-> playlist, wd |-> playlist_widget, dlg |-> "none"], urls)
           IN /\ playlist' = st.pl
              /\ playlist_widget' = st.wd
              /\ dialog' = st.dlg
        /\ op' = "dropEvent"
        /\ UNCHANGED <<current_track_index, is_playing, flags, timers, mixer,
                       unreadable, playlist_file>>

\* ------------------------------------------------------------ play_track
\* play_track() with self.current_track_index already set to i; the callers
\* leave the playlist alone.  A load that raises leaves is_playing and the
\* timers as they were; the music that was sounding has been faded out, and
\* the mixer either keeps the old music object or has freed it, depending on
\* the pygame build.
play_track(i) ==
    IF playlist = <<>>
    THEN /\ dialog' = "none"
         /\ UNCHANGED <<is_playing, timers, mixer>>
    ELSE LET track == playlist[i + 1]
             faded == IF is_playing THEN fadeout(music) ELSE music
         IN IF MixerLoadRaises(track)
            THEN /\ dialog' = "Playback Error"
                 /\ UNCHANGED <<is_playing, timers>>
                 /\ \/ /\ music' = faded
                       /\ loaded' = loaded
                    \/ /\ music' = fadeout(faded)
                       /\ loaded' = NoTrack
            ELSE /\ music' = "playing"
                 /\ loaded' = track
                 /\ is_playing' = TRUE
                 /\ progress_timer' = TRUE
                 /\ equalizer_timer' = TRUE
                 /\ visualizer_timer' = TRUE
                 /\ dialog' = "none"

\* play_selected_track(item): item is a row of the widget.
play_selected_track ==
    \E row \in 0..(Len(playlist_widget) - 1) :
        /\ current_track_index' = row
        /\ play_track(row)
        /\ op' = "play_selected_track"
        /\ UNCHANGED <<lists, flags, unreadable, playlist_file>>

\* Mutant of toggle_play_body: the pause branch forgets to stop the
\* visualizer timer.
toggle_play_body_visualizer_left_running ==
    IF is_playing
    THEN /\ music' = pause(music)
         /\ is_playing' = FALSE
         /\ progress_timer' = FALSE
         /\ equalizer_timer' = FALSE
         /\ UNCHANGED <<visualizer_timer, loaded>>
    ELSE /\ music' = unpause(music)
         /\ is_playing' = TRUE
         /\ progress_timer' = TRUE
         /\ equalizer_timer' = TRUE
         /\ visualizer_timer' = TRUE
         /\ UNCHANGED loaded

\* The state change of toggle_play(), shared with next_track.
toggle_play_body ==
    IF is_playing
    THEN /\ music' = pause(music)
         /\ is_playing' = FALSE
         /\ progress_timer' = FALSE
         /\ equalizer_timer' = FALSE
         /\ visualizer_timer' = FALSE
         /\ UNCHANGED loaded
    ELSE /\ music' = unpause(music)
         /\ is_playing' = TRUE
         /\ progress_timer' = TRUE
         /\ equalizer_timer' = TRUE
         /\ visualizer_timer' = TRUE
         /\ UNCHANGED loaded

toggle_play ==
    /\ toggle_play_body
    /\ dialog' = "none"
    /\ op' = "toggle_play"
    /\ UNCHANGED <<lists, current_track_index, flags, unreadable, playlist_file>>

\* Mutant of NextIndex: the successor without the wrap to the first track.
NextIndexNoWrap(i, n) == IF i + 1 < n THEN i + 1 ELSE n - 1

\* (self.current_track_index + 1) % len(self.playlist)
NextIndex(i, n) == (i + 1) % n

\* Mutant of PrevIndex: the predecessor without the wrap to the last track.
PrevIndexNoWrap(i, n) == IF i = 0 THEN 0 ELSE (i - 1) % n

\* (self.current_track_index - 1) % len(self.playlist)
PrevIndex(i, n) == (i - 1) % n

\* random.randint(0, len(self.playlist) - 1)
RandomIndices(n) == 0..(n - 1)

next_track ==
    /\ playlist # <<>>
    /\ \E i \in (IF is_shuffled THEN RandomIndices(Len(playlist))
                 ELSE {NextIndex(current_track_index, Len(playlist))}) :
          /\ current_track_index' = i
          /\ IF ~is_repeated /\ i = 0 /\ get_pos_is_minus_one
             THEN toggle_play_body /\ dialog' = "none"
             ELSE play_track(i)
    /\ op' = "next_track"
    /\ UNCHANGED <<lists, flags, unreadable, playlist_file>>

prev_track ==
    /\ playlist # <<>>
    /\ \E i \in (IF is_shuffled THEN RandomIndices(Len(playlist))
                 ELSE {PrevIndex(current_track_index, Len(playlist))}) :
          /\ current_track_index' = i
          /\ play_track(i)
    /\ op' = "prev_track"
    /\ UNCHANGED <<lists, flags, unreadable, playlist_file>>

toggle_shuffle ==
    /\ is_shuffled' = ~is_shuffled
    /\ dialog' = "none"
    /\ op' = "toggle_shuffle"
    /\ UNCHANGED <<lists, current_track_index, is_playing, is_repeated, timers, mixer,
                   unreadable, playlist_file>>

toggle_repeat ==
    /\ is_repeated' = ~is_repeated
    /\ dialog' = "none"
    /\ op' = "toggle_repeat"
    /\ UNCHANGED <<lists, current_track_index, is_playing, is_shuffled, timers, mixer,
                   unreadable, playlist_file>>

\* ----------------------------------------------------------- persistence
\* save_playlist with a file name chosen in the dialog.
save_playlist ==
    /\ IF playlist # <<>>
       THEN /\ playlist_file' = json_dump(playlist)
            /\ dialog' = "Success"
       ELSE /\ dialog' = "No Playlist"
            /\ UNCHANGED playlist_file
    /\ op' = "save_playlist"
    /\ UNCHANGED <<lists, current_track_index, is_playing, flags, timers, mixer, unreadable>>

\* The rows load_playlist adds before MP3(track) raises, if it does.
RECURSIVE LoadRows(_)
LoadRows(tracks) ==
    IF tracks = <<>> THEN <<>>
    ELSE IF splitext_lower(Head(tracks)) = ".mp3" /\ MP3Raises(Head(tracks))
         THEN <<>>
         ELSE <<Head(tracks)>> \o LoadRows(Tail(tracks))

\* load_playlist with the playlist file chosen in the dialog.  The playlist is
\* assigned before the widget is rebuilt; current_track_index is not touched.
load_playlist ==
    /\ playlist_file # <<>>
    /\ LET tracks == json_load(playlist_file)
       IN /\ playlist' = tracks
          /\ playlist_widget' = LoadRows(tracks)
          /\ dialog' = IF Len(LoadRows(tracks)) = Len(tracks) THEN "Success" ELSE "Load Error"
    /\ op' = "load_playlist"
    /\ UNCHANGED <<current_track_index, is_playing, flags, timers, mixer,
                   unreadable, playlist_file>>

\* ------------------------------------------------------------ environment
\* The music that is sounding runs to its end.
TrackEnded ==
    /\ music = "playing"
    /\ music' = "ended"
    /\ dialog' = "none"
    /\ op' = "track_ended"
    /\ UNCHANGED <<lists, current_track_index, is_playing, flags, timers, loaded,
                   unreadable, playlist_file>>

\* A file is deleted, moved or damaged on disk.
FileLost ==
    \E file \in Paths \ unreadable :
        /\ splitext_lower(file) \in SUPPORTED_FORMATS
        /\ unreadable' = unreadable \cup {file}
        /\ dialog' = "none"
        /\ op' = "file_lost"
        /\ UNCHANGED <<lists, current_track_index, is_playing, flags, timers, mixer,
                       playlist_file>>

Next ==
    \/ add_tracks
    \/ dropEvent
    \/ play_selected_track
    \/ toggle_play
    \/ next_track
    \/ prev_track
    \/ toggle_shuffle
    \/ toggle_repeat
    \/ save_playlist
    \/ load_playlist
    \/ TrackEnded
    \/ FileLost

Spec == Init /\ [][Next]_vars

\* ------------------------------------------------------------------ claims
Range(seq) == {seq[k] : k \in 1..Len(seq)}

\* C1: whenever the playlist is non-empty the current index satisfies
\* 0 <= current_track_index < len(playlist).
C1_IndexInRange ==
    playlist # <<>> => current_track_index \in 0..(Len(playlist) - 1)

\* C2: with shuffle on and more than one track, the index after next_track
\* differs from the index before it.
C2_ShuffleNextMoves ==
    [][(op' = "next_track" /\ is_shuffled /\ Len(playlist) > 1)
          => current_track_index' # current_track_index]_vars

\* C3: with shuffle off, next_track on a non-empty playlist of length n sets
\* the current index to exactly (i + 1) mod n, whatever the repeat flag and
\* the playback state are.
C3_NextIsSuccessor ==
    [][(op' = "next_track" /\ ~is_shuffled)
          => current_track_index' = (current_track_index + 1) % Len(playlist)]_vars

\* C3 witness: a next_track without shuffle has wrapped from the last track
\* of a playlist of several tracks to the first.
C3_Witness ==
    /\ op = "next_track"
    /\ ~is_shuffled
    /\ Len(playlist) > 1
    /\ current_track_index = 0

\* C4 as stated: prev_track sets the current index to (current - 1) mod
\* length whether the shuffle flag is on or off.
C4_PrevIgnoresShuffle ==
    [][op' = "prev_track"
          => current_track_index' = (current_track_index - 1) % Len(playlist)]_vars

\* C4 amended: prev_track sets the current index to (current - 1) mod length
\* when the shuffle flag is off, and to some index in 0..length-1 when it is on.
C4_PrevIsPredecessorUnlessShuffled ==
    [][op' = "prev_track"
          => IF is_shuffled
             THEN current_track_index' \in 0..(Len(playlist) - 1)
             ELSE current_track_index' = (current_track_index - 1) % Len(playlist)]_vars

\* C4 witness: a prev_track without shuffle has wrapped to the last track of
\* a playlist of several tracks.
C4_Witness ==
    /\ op = "prev_track"
    /\ ~is_shuffled
    /\ Len(playlist) > 1
    /\ current_track_index = Len(playlist) - 1

\* C5: when the music has run to its end (get_pos reports -1), repeat is off
\* and the current index is the last one, next_track leaves the session not
\* playing: is_playing is false and no track has been started.
C5_EndOfPlaylistStops ==
    [][(op' = "next_track" /\ music = "ended" /\ ~is_repeated
            /\ current_track_index = Len(playlist) - 1)
          => (~is_playing' /\ music' # "playing")]_vars

\* C6: is_playing is true only if play_track has loaded a track into the mixer.
C6_PlayingOnlyWithTrack ==
    is_playing => loaded # NoTrack

\* C7: after a play_track that failed to load its track, is_playing is false.
C7_FailedPlayStops ==
    dialog = "Playback Error" => ~is_playing

\* C8: load_playlist yields the saved paths that still resolve, in the saved
\* order, skips the others and completes successfully.
C8_LoadSkipsStalePaths ==
    [][op' = "load_playlist"
          => /\ playlist' = SelectSeq(json_load(playlist_file),
                                      LAMBDA t : t \notin unreadable)
             /\ dialog' = "Success"]_vars

\* C9: the track the mixer has loaded is an element of the playlist.
C9_LoadedTrackInPlaylist ==
    loaded # NoTrack => loaded \in Range(playlist)

\* C10: the playlist widget has exactly one row per playlist entry, in the
\* same order.
C10_WidgetMirrorsPlaylist ==
    playlist_widget = playlist

\* C11: the progress, equalizer and visualizer timers are active if and only
\* if is_playing is true, also after a play attempt that failed.
C11_TimersFollowIsPlaying ==
    /\ progress_timer = is_playing
    /\ equalizer_timer = is_playing
    /\ visualizer_timer = is_playing

\* C11 witness: a play attempt has failed while the session was playing, and
\* the three timers are still running with is_playing still true.
C11_Witness ==
    /\ dialog = "Playback Error"
    /\ op \in {"play_selected_track", "next_track", "prev_track"}
    /\ is_playing
    /\ progress_timer /\ equalizer_timer /\ visualizer_timer

====
